---- MODULE Spec2Model ----
(***************************************************************************)
(* Model of src/user/system/LoadBalancerManager.ts (CapRover).             *)
(*                                                                         *)
(* Spec        the reload coordinator (rePopulateNginxConfigFile,          *)
(*             consumeQueueIfAnyInNginxReloadQueue), the promise chain of  *)
(*             one reload pipeline and the files it touches.               *)
(* FairSpec    Spec with weak fairness on the steps of a pipeline.         *)
(* SpecCrash   Spec plus a kill of the process that keeps the files.       *)
(* SpecSignal  Spec plus calls of sendReloadSignal.                        *)
(* SpecBuilder getAppsServerConfig applied to bounded app definitions.     *)
(* SpecAuth    getAppsServerConfig applied to apps with every httpAuth.    *)
(* SpecRender  the completion of the descriptors and their promise chains  *)
(*             that render and append the blocks of the config text.       *)
(* SpecLifecycle  init: its bootstrap handlers and its scheduler calls.    *)
(* SpecInfo    getInfo applied to bounded bodies of the status response.   *)
(***************************************************************************)
EXTENDS Integers, Sequences, FiniteSets, TLC

\* ---------------------------------------------------------------- bounds
MaxRequests == 3
MaxCrashes == 1
MaxApps == 2
MaxCustomDomains == 2

Req == 1..MaxRequests

\* The namespace of the data stores handed to rePopulateNginxConfigFile.
Namespaces == {"captain"}

\* Base paths of the swapped files: one per namespace plus the root config.
Bases == Namespaces \cup {"root"}
Exts == {"fut", "bak", "conf"}
File == Bases \X Exts

\* ---------------------------------------------------------- file contents
\* The persistent store holds one of two contents; the text generated from
\* one differs from the text generated from the other.
StoreStates == {"A", "B"}

\* A file is absent, empty (created by ensureFile), holds the complete text
\* generated from state v of the store, or a partially written such text.
Absent == [k |-> "absent", v |-> "-"]
Empty == [k |-> "empty", v |-> "-"]
Full(v) == [k |-> "full", v |-> v]
Truncated(c) == [k |-> "part", v |-> c.v]
Content == {Absent, Empty} \cup {[k |-> kk, v |-> vv] : kk \in {"full", "part"}, vv \in StoreStates}

VARIABLES
    reloadInProcess,          \* this.reloadInProcess
    requestedReloadPromises,  \* this.requestedReloadPromises (ids of requests)
    promise,                  \* state of the promise returned for a request
    error,                    \* the error a pipeline's catch handler receives
    dataStore,                \* q.dataStore: the namespace of a request
    pc,                       \* position of the promise chain run for a request
    servers,                  \* store version read by getServerList
    nginxConfigContent,       \* the pipeline's local nginxConfigContent
    rootNginxConfContent,     \* rendered root config of createRootConfFile
    fs,                       \* the config files on disk
    storeVer,                 \* the state of the persistent store
    prior,                    \* history: .conf/.bak of a base when the running swap began
    crashes,                  \* number of kills of the process
    crashedAt,                \* the swap the last kill interrupted between its renames
    apps,                     \* builder: application definitions (in key order)
    hasRootSsl,               \* builder: dataStore.getHasRootSsl()
    built,                    \* builder: result of getAppsServerConfig
    bpc,                      \* builder: position
    chain,                    \* render: position of the promise chain of each descriptor
    microtasks,               \* render: the descriptors whose next handler is queued
    text,                     \* render: the blocks appended to nginxConfigContent
    service,                  \* scheduler: the node the proxy service runs on, 0 when there is none
    mounted,                  \* scheduler: the mounts of the proxy service
    ipc,                      \* init: position of its promise chain
    myNodeId,                 \* init: the argument, the node of the leader
    nodeId,                   \* init: the node id passed along the chain
    calls,                    \* the calls made to the scheduler client, in order
    body,                     \* getInfo: the body of the status response
    info,                     \* getInfo: what its promise settled with
    hupSignals                \* the HUP signals sent to the proxy container

coordVars == <<reloadInProcess, requestedReloadPromises, promise, error, dataStore, pc>>
pipeVars == <<servers, nginxConfigContent, rootNginxConfContent>>
envVars == <<storeVer, crashes, crashedAt>>
builderVars == <<apps, hasRootSsl, built, bpc>>
renderVars == <<chain, microtasks, text>>
initVars == <<service, mounted, ipc, myNodeId, nodeId, calls>>
infoVars == <<body, info>>
sideVars == <<renderVars, initVars, infoVars, hupSignals>>
restOfRender == <<coordVars, pipeVars, fs, prior, envVars, initVars, infoVars, hupSignals>>
restOfInit == <<coordVars, pipeVars, fs, prior, envVars, builderVars, renderVars, infoVars, hupSignals>>
restOfInfo == <<coordVars, pipeVars, fs, prior, envVars, builderVars, renderVars, initVars, hupSignals>>
vars == <<coordVars, pipeVars, fs, prior, envVars, builderVars, sideVars>>

Idle == <<"idle", "idle">>
AtSuccess == <<"done", "success">>
AtCatch == <<"done", "catch">>
NoError == [code |-> "none", at |-> Idle]

\* the staging path mistaken for the live path / for the backup path
FutureIsConfig(b) == <<b, "conf">>
FutureIsBackup(b) == <<b, "bak">>

NoPrior == [b \in Bases |-> [conf |-> Absent, bak |-> Absent]]

\* paths of one swap (lines 97-99 and 388-390)
FUTURE(b) == <<b, "fut">>
BACKUP(b) == <<b, "bak">>
CONFIG(b) == <<b, "conf">>

\* -------------------------------------------------------- fs-extra calls
remove(files, f) == [files EXCEPT ![f] = Absent]

outputFileBegin(files, f, c) == [files EXCEPT ![f] = Truncated(c)]

\* an outputFile that leaves a file that exists as it is
outputFileKeepsExisting(files, f, c) == IF files[f] = Absent THEN [files EXCEPT ![f] = c] ELSE files

outputFile(files, f, c) == [files EXCEPT ![f] = c]

\* an ensureFile that truncates an existing file / that creates nothing
ensureFileTruncates(files, f) == [files EXCEPT ![f] = Empty]
ensureFileNoCreate(files, f) == files

ensureFile(files, f) == IF files[f] = Absent THEN [files EXCEPT ![f] = Empty] ELSE files

renameSync(files, src, dst) == [files EXCEPT ![dst] = files[src], ![src] = Absent]

\* ------------------------------------------------------------ coordinator
Last(s) == s[Len(s)]
Front(s) == SubSeq(s, 1, Len(s) - 1)

\* a drain that starts the popped request without looking at the busy flag
consumeIgnoringBusy(queue, busy, p) ==
    IF queue = <<>>
    THEN /\ requestedReloadPromises' = queue
         /\ reloadInProcess' = busy
         /\ pc' = p
    ELSE /\ requestedReloadPromises' = Front(queue)
         /\ reloadInProcess' = TRUE
         /\ pc' = [p EXCEPT ![Last(queue)] = <<"app", "removeFuture">>]

\* a drain that tests the busy flag before it pops
consumeTestsBusyFirst(queue, busy, p) ==
    IF queue = <<>> \/ busy
    THEN /\ requestedReloadPromises' = queue
         /\ reloadInProcess' = busy
         /\ pc' = p
    ELSE /\ requestedReloadPromises' = Front(queue)
         /\ reloadInProcess' = TRUE
         /\ pc' = [p EXCEPT ![Last(queue)] = <<"app", "removeFuture">>]

\* consumeQueueIfAnyInNginxReloadQueue up to the start of its promise chain
\* (lines 71-103): queue, busy and p are the values of requestedReloadPromises,
\* reloadInProcess and pc at the moment of the call.
consumeQueueIfAnyInNginxReloadQueue(queue, busy, p) ==
    IF queue = <<>>
    THEN /\ requestedReloadPromises' = queue
         /\ reloadInProcess' = busy
         /\ pc' = p
    ELSE /\ requestedReloadPromises' = Front(queue)
         /\ IF busy
            THEN /\ reloadInProcess' = busy
                 /\ pc' = p
            ELSE /\ reloadInProcess' = TRUE
                 /\ pc' = [p EXCEPT ![Last(queue)] = <<"app", "removeFuture">>]

Issued == {r \in Req : promise[r] # "none"}

\* rePopulateNginxConfigFile (lines 58-69): the next request is created,
\* pushed and the drain is attempted, all in the promise executor.
rePopulateNginxConfigFile(ns) ==
    /\ Cardinality(Issued) < MaxRequests
    /\ LET r == Cardinality(Issued) + 1 IN
        /\ promise' = [promise EXCEPT ![r] = "pending"]
        /\ dataStore' = [dataStore EXCEPT ![r] = ns]
        /\ consumeQueueIfAnyInNginxReloadQueue(Append(requestedReloadPromises, r), reloadInProcess, pc)
    /\ UNCHANGED <<error, pipeVars, fs, prior, envVars, builderVars, sideVars>>

\* --------------------------------------------------------------- pipeline
\* A step of the chain that rejects: control passes to the catch handler.
Reject(r, code) ==
    /\ pc' = [pc EXCEPT ![r] = AtCatch]
    /\ error' = [error EXCEPT ![r] = [code |-> code, at |-> pc[r]]]

Goto(r, next) ==
    /\ pc' = [pc EXCEPT ![r] = next]
    /\ UNCHANGED error

\* the chain of a request ended: its closure (dataStore aside, which the model
\* keeps with the request) and the error it caught are no longer referenced
Forget(r) ==
    /\ error' = [error EXCEPT ![r] = NoError]
    /\ servers' = [servers EXCEPT ![r] = "A"]
    /\ nginxConfigContent' = [nginxConfigContent EXCEPT ![r] = Empty]
    /\ rootNginxConfContent' = [rootNginxConfContent EXCEPT ![r] = Empty]
    /\ prior' = NoPrior

coordRest == <<reloadInProcess, requestedReloadPromises, promise, dataStore>>

\* line 105: fs.remove(FUTURE)
RemoveStaleFuture(r) ==
    /\ pc[r] = <<"app", "removeFuture">>
    /\ \/ /\ fs' = remove(fs, FUTURE(dataStore[r]))
          /\ Goto(r, <<"app", "getServerList">>)
       \/ /\ Reject(r, "EIO")
          /\ UNCHANGED fs
    /\ UNCHANGED <<coordRest, pipeVars, prior, envVars, builderVars, sideVars>>

\* line 108: self.getServerList(dataStore)
GetServerList(r) ==
    /\ pc[r] = <<"app", "getServerList">>
    /\ \/ /\ servers' = [servers EXCEPT ![r] = storeVer]
          /\ Goto(r, <<"app", "render">>)
       \/ /\ Reject(r, "ESTORE")
          /\ UNCHANGED servers
    /\ UNCHANGED <<coordRest, nginxConfigContent, rootNginxConfContent, fs, prior, envVars, builderVars, sideVars>>

\* a rendering that writes to the staging file as it goes
RenderServersStreamsToFuture(r) ==
    /\ pc[r] = <<"app", "render">>
    /\ fs' = outputFileBegin(fs, FUTURE(dataStore[r]), Full(servers[r]))
    /\ \/ /\ nginxConfigContent' = [nginxConfigContent EXCEPT ![r] = Full(servers[r])]
          /\ Goto(r, <<"app", "outputFuture">>)
       \/ /\ Reject(r, "ERENDER")
          /\ UNCHANGED nginxConfigContent
    /\ UNCHANGED <<coordRest, servers, rootNginxConfContent, prior, envVars, builderVars, sideVars>>

\* lines 110-161: every descriptor is rendered into nginxConfigContent; the
\* <namespace>-<domain>.auth files written on the way are outside File: no
\* step of a swap reads or renames them
RenderServers(r) ==
    /\ pc[r] = <<"app", "render">>
    /\ \/ /\ nginxConfigContent' = [nginxConfigContent EXCEPT ![r] = Full(servers[r])]
          /\ Goto(r, <<"app", "outputFuture">>)
       \/ /\ Reject(r, "ERENDER")
          /\ UNCHANGED nginxConfigContent
    /\ UNCHANGED <<coordRest, servers, rootNginxConfContent, fs, prior, envVars, builderVars, sideVars>>

\* the base path and the new content of the swap a pipeline is in
BaseOf(r) == IF pc[r][1] = "root" THEN "root" ELSE dataStore[r]
NewContent(r) == IF pc[r][1] = "root" THEN rootNginxConfContent[r] ELSE nginxConfigContent[r]
InSwap(r) == pc[r][1] \in {"app", "root"}

\* lines 163 and 452: fs.outputFile(FUTURE, content); the write is not atomic
OutputFutureBegin(r) ==
    /\ InSwap(r) /\ pc[r][2] = "outputFuture"
    /\ prior' = [prior EXCEPT ![BaseOf(r)] = [conf |-> fs[CONFIG(BaseOf(r))], bak |-> fs[BACKUP(BaseOf(r))]]]
    /\ \/ /\ fs' = outputFileBegin(fs, FUTURE(BaseOf(r)), NewContent(r))
          /\ Goto(r, <<pc[r][1], "outputFutureW">>)
       \/ /\ Reject(r, "EIO")
          /\ UNCHANGED fs
    /\ UNCHANGED <<coordRest, pipeVars, envVars, builderVars, sideVars>>

OutputFutureEnd(r) ==
    /\ InSwap(r) /\ pc[r][2] = "outputFutureW"
    /\ \/ /\ fs' = outputFile(fs, FUTURE(BaseOf(r)), NewContent(r))
          /\ Goto(r, <<pc[r][1], "removeBackup">>)
       \/ /\ Reject(r, "EIO")
          /\ UNCHANGED fs
    /\ UNCHANGED <<coordRest, pipeVars, prior, envVars, builderVars, sideVars>>

\* lines 166 and 455: fs.remove(BACKUP)
RemoveBackup(r) ==
    /\ InSwap(r) /\ pc[r][2] = "removeBackup"
    /\ \/ /\ fs' = remove(fs, BACKUP(BaseOf(r)))
          /\ Goto(r, <<pc[r][1], "ensureConfig">>)
       \/ /\ Reject(r, "EIO")
          /\ UNCHANGED fs
    /\ UNCHANGED <<coordRest, pipeVars, prior, envVars, builderVars, sideVars>>

\* lines 169 and 458: fs.ensureFile(CONFIG)
EnsureConfig(r) ==
    /\ InSwap(r) /\ pc[r][2] = "ensureConfig"
    /\ \/ /\ fs' = ensureFile(fs, CONFIG(BaseOf(r)))
          /\ Goto(r, <<pc[r][1], "renameConfig">>)
       \/ /\ Reject(r, "EIO")
          /\ UNCHANGED fs
    /\ UNCHANGED <<coordRest, pipeVars, prior, envVars, builderVars, sideVars>>

\* lines 172 and 461: fs.renameSync(CONFIG, BACKUP); throws when CONFIG is missing
RenameConfigToBackup(r) ==
    /\ InSwap(r) /\ pc[r][2] = "renameConfig"
    /\ \/ /\ fs[CONFIG(BaseOf(r))] # Absent
          /\ fs' = renameSync(fs, CONFIG(BaseOf(r)), BACKUP(BaseOf(r)))
          /\ Goto(r, <<pc[r][1], "renameFuture">>)
       \/ /\ fs[CONFIG(BaseOf(r))] = Absent
          /\ Reject(r, "ENOENT")
          /\ UNCHANGED fs
       \/ /\ Reject(r, "EIO")
          /\ UNCHANGED fs
    /\ UNCHANGED <<coordRest, pipeVars, prior, envVars, builderVars, sideVars>>

\* a chain that resolves after the swap of the namespace, without the root one
RenameFutureToConfigSkipsRoot(r) ==
    /\ InSwap(r) /\ pc[r][2] = "renameFuture"
    /\ \/ /\ fs[FUTURE(BaseOf(r))] # Absent
          /\ fs' = renameSync(fs, FUTURE(BaseOf(r)), CONFIG(BaseOf(r)))
          /\ Goto(r, AtSuccess)
       \/ /\ fs[FUTURE(BaseOf(r))] = Absent
          /\ Reject(r, "ENOENT")
          /\ UNCHANGED fs
       \/ /\ Reject(r, "EIO")
          /\ UNCHANGED fs
    /\ UNCHANGED <<coordRest, pipeVars, prior, envVars, builderVars, sideVars>>

\* lines 175 and 464: fs.renameSync(FUTURE, CONFIG); the per-namespace swap is
\* followed by createRootConfFile (line 178), the root swap by the last then
RenameFutureToConfig(r) ==
    /\ InSwap(r) /\ pc[r][2] = "renameFuture"
    /\ \/ /\ fs[FUTURE(BaseOf(r))] # Absent
          /\ fs' = renameSync(fs, FUTURE(BaseOf(r)), CONFIG(BaseOf(r)))
          /\ Goto(r, IF pc[r][1] = "app" THEN <<"root", "render">> ELSE AtSuccess)
       \/ /\ fs[FUTURE(BaseOf(r))] = Absent
          /\ Reject(r, "ENOENT")
          /\ UNCHANGED fs
       \/ /\ Reject(r, "EIO")
          /\ UNCHANGED fs
    /\ UNCHANGED <<coordRest, pipeVars, prior, envVars, builderVars, sideVars>>

\* createRootConfFile, lines 394-450: read the store and render the root template
RenderRootConf(r) ==
    /\ pc[r] = <<"root", "render">>
    /\ \/ /\ rootNginxConfContent' = [rootNginxConfContent EXCEPT ![r] = Full(storeVer)]
          /\ Goto(r, <<"root", "outputFuture">>)
       \/ /\ Reject(r, "ERENDER")
          /\ UNCHANGED rootNginxConfContent
    /\ UNCHANGED <<coordRest, servers, nginxConfigContent, fs, prior, envVars, builderVars, sideVars>>

\* a last handler that signals the proxy before it resolves the request
PipelineSuccessSignals(r) ==
    /\ pc[r] = AtSuccess
    /\ hupSignals' = hupSignals + 1
    /\ promise' = [promise EXCEPT ![r] = "resolved"]
    /\ consumeQueueIfAnyInNginxReloadQueue(requestedReloadPromises, FALSE, [pc EXCEPT ![r] = Idle])
    /\ Forget(r)
    /\ UNCHANGED <<dataStore, fs, envVars, builderVars, renderVars, initVars, infoVars>>

\* lines 180-185: the last then of the chain
PipelineSuccess(r) ==
    /\ pc[r] = AtSuccess
    /\ promise' = [promise EXCEPT ![r] = "resolved"]
    /\ consumeQueueIfAnyInNginxReloadQueue(requestedReloadPromises, FALSE, [pc EXCEPT ![r] = Idle])
    /\ Forget(r)
    /\ UNCHANGED <<dataStore, fs, envVars, builderVars, sideVars>>

\* a catch handler that forgets to release the busy flag
PipelineCatchKeepsBusy(r) ==
    /\ pc[r] = AtCatch
    /\ promise' = [promise EXCEPT ![r] = "rejected"]
    /\ consumeQueueIfAnyInNginxReloadQueue(requestedReloadPromises, reloadInProcess, [pc EXCEPT ![r] = Idle])
    /\ Forget(r)
    /\ UNCHANGED <<dataStore, fs, envVars, builderVars, sideVars>>

\* lines 186-192: the catch of the chain
PipelineCatch(r) ==
    /\ pc[r] = AtCatch
    /\ promise' = [promise EXCEPT ![r] = "rejected"]
    /\ consumeQueueIfAnyInNginxReloadQueue(requestedReloadPromises, FALSE, [pc EXCEPT ![r] = Idle])
    /\ Forget(r)
    /\ UNCHANGED <<dataStore, fs, envVars, builderVars, sideVars>>

PipelineStep(r) ==
    \/ RemoveStaleFuture(r)
    \/ GetServerList(r)
    \/ RenderServers(r)
    \/ OutputFutureBegin(r)
    \/ OutputFutureEnd(r)
    \/ RemoveBackup(r)
    \/ EnsureConfig(r)
    \/ RenameConfigToBackup(r)
    \/ RenameFutureToConfig(r)
    \/ RenderRootConf(r)
    \/ PipelineSuccess(r)
    \/ PipelineCatch(r)

\* ------------------------------------------------------------ environment
\* the persistent store is changed by the rest of the platform
ChangeStore ==
    /\ storeVer' \in StoreStates \ {storeVer}
    /\ UNCHANGED <<coordVars, pipeVars, fs, prior, crashes, crashedAt, builderVars, sideVars>>

Running == {r \in Req : pc[r] # Idle}

\* a pipeline has renamed .conf to .bak and not yet .fut to .conf
BetweenRenames(r) == InSwap(r) /\ pc[r][2] = "renameFuture"

\* the process is killed and restarted: the constructor's state (lines 47-48),
\* every promise and chain of the old process is gone, the files stay; the
\* requests of the old process keep their ids
Crash ==
    /\ crashes < MaxCrashes
    /\ crashes' = crashes + 1
    /\ crashedAt' = IF \E r \in Req : BetweenRenames(r) THEN pc[CHOOSE r \in Req : BetweenRenames(r)] ELSE Idle
    /\ reloadInProcess' = FALSE
    /\ requestedReloadPromises' = <<>>
    /\ promise' = [r \in Req |-> IF promise[r] = "none" THEN "none" ELSE "gone"]
    /\ error' = [r \in Req |-> NoError]
    /\ pc' = [r \in Req |-> Idle]
    /\ servers' = [r \in Req |-> "A"]
    /\ nginxConfigContent' = [r \in Req |-> Empty]
    /\ rootNginxConfContent' = [r \in Req |-> Empty]
    /\ prior' = NoPrior
    /\ UNCHANGED <<dataStore, fs, storeVer, builderVars, sideVars>>

InitProcess ==
    /\ reloadInProcess = FALSE
    /\ requestedReloadPromises = <<>>
    /\ promise = [r \in Req |-> "none"]
    /\ error = [r \in Req |-> NoError]
    /\ dataStore = [r \in Req |-> "captain"]
    /\ pc = [r \in Req |-> Idle]
    /\ servers = [r \in Req |-> "A"]
    /\ nginxConfigContent = [r \in Req |-> Empty]
    /\ rootNginxConfContent = [r \in Req |-> Empty]

\* the files of a new installation, and those an earlier run left behind
Fresh == [f \in File |-> Absent]
Installed == [f \in File |-> IF f[2] = "conf" THEN Full("A") ELSE IF f[2] = "bak" THEN Empty ELSE Absent]

InitBuilderOff ==
    /\ apps = <<>>
    /\ hasRootSsl = FALSE
    /\ built = <<>>
    /\ bpc = "off"

InitRenderOff ==
    /\ chain = <<>>
    /\ microtasks = <<>>
    /\ text = <<>>

InitInitOff ==
    /\ service = 0
    /\ mounted = {}
    /\ ipc = "off"
    /\ myNodeId = 0
    /\ nodeId = 0
    /\ calls = <<>>

NoInfo == [state |-> "off", activeConnections |-> 0, accepted |-> 0, handled |-> 0, total |-> 0, reading |-> 0, writing |-> 0, waiting |-> 0]

InitInfoOff ==
    /\ body = <<>>
    /\ info = NoInfo

InitSideOff ==
    /\ InitRenderOff
    /\ InitInitOff
    /\ InitInfoOff
    /\ hupSignals = 0

Init ==
    /\ InitProcess
    /\ fs \in {Fresh, Installed}
    /\ prior = NoPrior
    /\ storeVer = "A"
    /\ crashes = 0
    /\ crashedAt = Idle
    /\ InitBuilderOff
    /\ InitSideOff

Next ==
    \/ \E ns \in Namespaces : rePopulateNginxConfigFile(ns)
    \/ \E r \in Req : PipelineStep(r)
    \/ ChangeStore

Spec == Init /\ [][Next]_vars

FairSpec == Spec /\ \A r \in Req : WF_vars(PipelineStep(r))

NextCrash ==
    \/ Next
    \/ Crash

SpecCrash == Init /\ [][NextCrash]_vars

\* ------------------------------------------------ sendReloadSignal
\* A public method of its own (lines 305-309): it asks the scheduler client
\* to send HUP to the container of the proxy. Nothing in the file calls it;
\* the users of the manager may, at any time.
MaxSignals == 1

sendReloadSignal ==
    /\ hupSignals < MaxSignals
    /\ hupSignals' = hupSignals + 1
    /\ UNCHANGED <<coordVars, pipeVars, fs, prior, envVars, builderVars, renderVars, initVars, infoVars>>

NextSignal ==
    \/ Next
    \/ sendReloadSignal

SpecSignal == Init /\ [][NextSignal]_vars

\* ------------------------------------------------ getAppsServerConfig
\* An application definition of the store: customDomain may be undefined;
\* a custom domain is named by its position, its own hasSsl is kept. A field
\* a descriptor does not have yet reads "undefined".
\* webApp.httpAuth: undefined, or an object whose user / passwordHashed may be missing
NoHttpAuth == [defined |-> FALSE, user |-> "undefined", passwordHashed |-> "undefined"]
HttpAuths == {NoHttpAuth} \cup {[defined |-> TRUE, user |-> u, passwordHashed |-> h] : u \in {"undefined", "user"}, h \in {"undefined", "hash"}}

\* lines 242-247: the credential of an application
httpBasicAuth(webApp) ==
    IF webApp.httpAuth.defined /\ webApp.httpAuth.passwordHashed # "undefined"
    THEN (IF webApp.httpAuth.user = "undefined" THEN "undefined:hash" ELSE "user:hash")
    ELSE ""

CustomDomainLists == UNION {[1..n -> BOOLEAN] : n \in 0..MaxCustomDomains}
AppDefinitions ==
    [notExposeAsWebApp : BOOLEAN,
     hasDefaultSubDomainSsl : BOOLEAN,
     customDomain : {[defined |-> FALSE, list |-> <<>>]} \cup {[defined |-> TRUE, list |-> l] : l \in CustomDomainLists},
     httpAuth : {NoHttpAuth}]
AppLists == UNION {[1..n -> AppDefinitions] : n \in 0..MaxApps}

\* lines 279-297: the descriptors of the custom domains from position idx on
RECURSIVE customDomainServers(_, _, _)
customDomainServers(appName, webApp, idx) ==
    IF idx > Len(webApp.customDomain.list)
    THEN <<>>
    ELSE <<[hasSsl |-> webApp.customDomain.list[idx],
            publicDomain |-> <<"custom", appName, idx>>,
            localDomain |-> appName,
            staticWebRoot |-> "",
            customErrorPagesDirectory |-> "",
            httpBasicAuth |-> httpBasicAuth(webApp),
            httpBasicAuthPath |-> "undefined",
            crtPath |-> "undefined",
            keyPath |-> "undefined"]>>
         \o customDomainServers(appName, webApp, idx + 1)

\* a builder that forgets the notExposeAsWebApp test
appServersExposingAll(appName, webApp, rootSsl) ==
    <<[hasSsl |-> rootSsl /\ webApp.hasDefaultSubDomainSsl,
       publicDomain |-> <<"sub", appName, 0>>,
       localDomain |-> appName,
       staticWebRoot |-> "undefined",
       customErrorPagesDirectory |-> "undefined",
       httpBasicAuth |-> httpBasicAuth(webApp),
       httpBasicAuthPath |-> "undefined",
       crtPath |-> "undefined",
       keyPath |-> "undefined"]>>
    \o (IF webApp.customDomain.defined /\ Len(webApp.customDomain.list) > 0
        THEN customDomainServers(appName, webApp, 1)
        ELSE <<>>)

\* lines 240-299: the body of the forEach for one application
appServers(appName, webApp, rootSsl) ==
    IF webApp.notExposeAsWebApp
    THEN <<>>
    ELSE <<[hasSsl |-> rootSsl /\ webApp.hasDefaultSubDomainSsl,
            publicDomain |-> <<"sub", appName, 0>>,
            localDomain |-> appName,
            staticWebRoot |-> "undefined",
            customErrorPagesDirectory |-> "undefined",
            httpBasicAuth |-> httpBasicAuth(webApp),
            httpBasicAuthPath |-> "undefined",
            crtPath |-> "undefined",
            keyPath |-> "undefined"]>>
         \o (IF webApp.customDomain.defined /\ Len(webApp.customDomain.list) > 0
             THEN customDomainServers(appName, webApp, 1)
             ELSE <<>>)

\* lines 234-301: Object.keys(apps).forEach from application i on
RECURSIVE serversFrom(_, _, _)
serversFrom(appDefs, rootSsl, i) ==
    IF i > Len(appDefs)
    THEN <<>>
    ELSE appServers(i, appDefs[i], rootSsl) \o serversFrom(appDefs, rootSsl, i + 1)

getAppsServerConfig(appDefs, rootSsl) == serversFrom(appDefs, rootSsl, 1)

\* the call of getAppsServerConfig by getServerList (lines 216-223)
CallGetAppsServerConfig ==
    /\ bpc = "start"
    /\ built' = getAppsServerConfig(apps, hasRootSsl)
    /\ bpc' = "done"
    /\ UNCHANGED <<coordVars, pipeVars, fs, prior, envVars, apps, hasRootSsl, sideVars>>

InitBuilder ==
    /\ InitProcess
    /\ fs = Fresh
    /\ prior = NoPrior
    /\ storeVer = "A"
    /\ crashes = 0
    /\ crashedAt = Idle
    /\ apps \in AppLists
    /\ hasRootSsl \in BOOLEAN
    /\ built = <<>>
    /\ bpc = "start"
    /\ InitSideOff

NextBuilder == CallGetAppsServerConfig

SpecBuilder == InitBuilder /\ [][NextBuilder]_vars

\* the apps of the credentials: exposed, with every shape of httpAuth and
\* any number of custom domains
AuthAppDefinitions ==
    [notExposeAsWebApp : {FALSE},
     hasDefaultSubDomainSsl : {FALSE},
     customDomain : {[defined |-> FALSE, list |-> <<>>]}
                    \cup {[defined |-> TRUE, list |-> [i \in 1..n |-> FALSE]] : n \in 0..MaxCustomDomains},
     httpAuth : HttpAuths]
AuthAppLists == UNION {[1..n -> AuthAppDefinitions] : n \in 0..MaxApps}

InitAuth ==
    /\ InitProcess
    /\ fs = Fresh
    /\ prior = NoPrior
    /\ storeVer = "A"
    /\ crashes = 0
    /\ crashedAt = Idle
    /\ apps \in AuthAppLists
    /\ hasRootSsl \in BOOLEAN
    /\ built = <<>>
    /\ bpc = "start"
    /\ InitSideOff

SpecAuth == InitAuth /\ [][NextBuilder]_vars

\* ------------------------------------------------ rendering (lines 110-161)
\* The pipeline step that receives the descriptor list: a synchronous loop
\* completes each descriptor and starts one promise chain per descriptor
\*   Promise.resolve().then(auth file).then(ejs.render).then(append)
\* and Promise.all waits for the chains. The handlers of promises that are
\* already resolved run from the microtask queue in the order they were
\* queued; the write of an auth file completes later, from the event loop,
\* once the microtask queue is empty, in an order the file system decides.
\* A rendered block is named by the publicDomain of its descriptor and
\* nginxConfigContent is the sequence of the blocks appended to it.
MaxServers == 3

\* the apps of the rendering: all exposed, with or without a credential
BasicAuth == [defined |-> TRUE, user |-> "user", passwordHashed |-> "hash"]
RenderAppDefinitions ==
    [notExposeAsWebApp : {FALSE},
     hasDefaultSubDomainSsl : BOOLEAN,
     customDomain : {[defined |-> TRUE, list |-> l] : l \in CustomDomainLists},
     httpAuth : {NoHttpAuth, BasicAuth}]
RenderAppLists ==
    {a \in UNION {[1..n -> RenderAppDefinitions] : n \in 0..MaxApps} :
        Len(getAppsServerConfig(a, TRUE)) <= MaxServers}

CertPath == "letsEncryptEtcPathOnNginx/live/publicDomain/fullchain.pem"
KeyPath == "letsEncryptEtcPathOnNginx/live/publicDomain/privkey.pem"
DomainSpecificHtmlDir == "nginxStaticRootDir/nginxDomainSpecificHtmlDir/publicDomain"
DefaultHtmlDir == "nginxStaticRootDir/nginxDefaultHtmlDir"
AuthPath == "configFilePathBase-publicDomain.auth"

prepareServerAlwaysCert(s) ==
    [s EXCEPT !.crtPath = CertPath,
              !.keyPath = KeyPath,
              !.staticWebRoot = DomainSpecificHtmlDir,
              !.customErrorPagesDirectory = DefaultHtmlDir]

prepareServerKeepsEmpty(s) ==
    [s EXCEPT !.crtPath = IF s.hasSsl THEN CertPath ELSE @,
              !.keyPath = IF s.hasSsl THEN KeyPath ELSE @,
              !.staticWebRoot = IF @ = "" THEN @ ELSE DomainSpecificHtmlDir,
              !.customErrorPagesDirectory = IF @ = "" THEN @ ELSE DefaultHtmlDir]

\* lines 115-129: the body of the loop, for one descriptor
prepareServer(s) ==
    [s EXCEPT !.crtPath = IF s.hasSsl THEN CertPath ELSE @,
              !.keyPath = IF s.hasSsl THEN KeyPath ELSE @,
              !.staticWebRoot = DomainSpecificHtmlDir,
              !.customErrorPagesDirectory = DefaultHtmlDir]

Indices(n) == [i \in 1..n |-> i]

\* lines 110-160: the loop over the descriptors; every chain has its first
\* handler queued, in list order
StartRender ==
    /\ bpc = "done"
    /\ built' = [i \in 1..Len(built) |-> prepareServer(built[i])]
    /\ chain' = [i \in 1..Len(built) |-> "auth"]
    /\ microtasks' = Indices(Len(built))
    /\ text' = <<>>
    /\ bpc' = "rendering"
    /\ UNCHANGED <<restOfRender, apps, hasRootSsl>>

\* lines 133-145: the first handler of a chain; with a credential it starts
\* fs.outputFile of the auth file and the chain waits for it
AuthStep(i) ==
    /\ chain[i] = "auth"
    /\ IF built[i].httpBasicAuth # ""
       THEN /\ built' = [built EXCEPT ![i].httpBasicAuthPath = AuthPath]
            /\ chain' = [chain EXCEPT ![i] = "io"]
            /\ microtasks' = Tail(microtasks)
       ELSE /\ chain' = [chain EXCEPT ![i] = "render"]
            /\ microtasks' = Append(Tail(microtasks), i)
            /\ UNCHANGED built
    /\ UNCHANGED text

\* lines 146-151: ejs.render of the descriptor, which may throw
RenderStep(i) ==
    /\ chain[i] = "render"
    /\ \/ /\ chain' = [chain EXCEPT ![i] = "append"]
          /\ microtasks' = Append(Tail(microtasks), i)
       \/ /\ chain' = [chain EXCEPT ![i] = "failed"]
          /\ microtasks' = Tail(microtasks)
    /\ UNCHANGED <<built, text>>

\* lines 152-154: nginxConfigContent += rendered
AppendStep(i) ==
    /\ chain[i] = "append"
    /\ text' = Append(text, built[i].publicDomain)
    /\ chain' = [chain EXCEPT ![i] = "done"]
    /\ microtasks' = Tail(microtasks)
    /\ UNCHANGED built

\* the handler at the head of the microtask queue runs
RunMicrotask ==
    /\ microtasks # <<>>
    /\ LET i == Head(microtasks)
       IN AuthStep(i) \/ RenderStep(i) \/ AppendStep(i)
    /\ UNCHANGED <<restOfRender, apps, hasRootSsl, bpc>>

\* line 139: the write of one auth file completes, or fails
OutputAuthFileDone(i) ==
    /\ microtasks = <<>>
    /\ i \in DOMAIN chain
    /\ chain[i] = "io"
    /\ \/ /\ chain' = [chain EXCEPT ![i] = "render"]
          /\ microtasks' = <<i>>
       \/ /\ chain' = [chain EXCEPT ![i] = "failed"]
          /\ UNCHANGED microtasks
    /\ UNCHANGED <<restOfRender, builderVars, text>>

\* line 160: Promise.all resolves once every chain has, and the pipeline goes on
AllRendered ==
    /\ bpc = "rendering"
    /\ \A i \in DOMAIN chain : chain[i] = "done"
    /\ bpc' = "rendered"
    /\ UNCHANGED <<coordVars, pipeVars, fs, prior, envVars, apps, hasRootSsl, built, sideVars>>

\* line 160: Promise.all rejects with the first chain that does; the other
\* chains go on
SomeChainRejected ==
    /\ bpc = "rendering"
    /\ \E i \in DOMAIN chain : chain[i] = "failed"
    /\ bpc' = "rejected"
    /\ UNCHANGED <<coordVars, pipeVars, fs, prior, envVars, apps, hasRootSsl, built, sideVars>>

InitRender ==
    /\ InitProcess
    /\ fs = Fresh
    /\ prior = NoPrior
    /\ storeVer = "A"
    /\ crashes = 0
    /\ crashedAt = Idle
    /\ apps \in RenderAppLists
    /\ hasRootSsl \in BOOLEAN
    /\ built = <<>>
    /\ bpc = "start"
    /\ InitRenderOff
    /\ InitInitOff
    /\ InitInfoOff
    /\ hupSignals = 0

NextRender ==
    \/ CallGetAppsServerConfig
    \/ StartRender
    \/ RunMicrotask
    \/ \E i \in 1..MaxServers : OutputAuthFileDone(i)
    \/ AllRendered
    \/ SomeChainRejected

SpecRender == InitRender /\ [][NextRender]_vars

\* ------------------------------------------------ init (lines 489-719)
\* The chain of init. Its handlers up to the first call of the scheduler
\* client (lines 540-618) write the confirmation token, render and write the
\* three static pages, copy the fake certificates, write the base config,
\* request one reload of the config files and wait for it, and ensure two
\* directories; they are named in BootHandlers, in the order of the chain.
\* The scheduler is its state as the client shows it: the node the proxy
\* service runs on and the mounts of the service. Every handler that has
\* succeeded and every call of the client is logged in calls, a client call
\* with its node argument or result and the placement of the service when
\* it was made; any of them may fail, which rejects init.
MaxNodes == 2
MaxInits == 2

Nodes == 1..MaxNodes
BootHandlers ==
    <<"outputFile:captainConfirmationPath",
      "render:index", "outputFile:index.html",
      "render:error_generic", "outputFile:error_generic_catch_all.html",
      "render:502", "outputFile:captain_502_custom_error_page.html",
      "copy:fakeCerts",
      "ensureBaseNginxConf",
      "rePopulateNginxConfigFile", "awaitReload",
      "ensureDir:letsEncryptEtcPath", "ensureDir:nginxSharedPathOnHost">>
FullMounts == {"nginxStaticRootDir", "fakeCerts", "nginx.conf", "conf.d", "letsEncryptEtc", "nginxShared"}
Call(op, node, mounts) == [op |-> op, node |-> node, mounts |-> mounts, on |-> service]
InitsStarted == Cardinality({i \in DOMAIN calls : calls[i].op = "init"})
InitFails(op, node) ==
    /\ ipc' = "failed"
    /\ calls' = Append(calls, Call(op, node, {})) \o <<Call("failed", 0, {})>>
    /\ UNCHANGED <<service, mounted, myNodeId, nodeId>>

\* lines 489, 540: init(myNodeId, dataStore) is called, at start-up or again
\* after a run that succeeded; a run that failed halts the start-up, and the
\* placement it leaves is one of the placements a first run starts from
CallInit ==
    /\ ipc \in {"idle", "done"}
    /\ InitsStarted < MaxInits
    /\ \E leader \in Nodes : myNodeId' = leader /\ calls' = Append(calls, Call("init", leader, {}))
    /\ ipc' = BootHandlers[1]
    /\ nodeId' = 0
    /\ UNCHANGED <<service, mounted, restOfInit>>

AfterBoot(i) == IF i < Len(BootHandlers) THEN BootHandlers[i + 1] ELSE "isRunning"

\* a chain that goes on after a handler has failed
BootStepIgnoresFailure(i) ==
    /\ ipc = BootHandlers[i]
    /\ ipc' = AfterBoot(i)
    /\ \/ calls' = Append(calls, Call(BootHandlers[i], 0, {}))
       \/ UNCHANGED calls
    /\ UNCHANGED <<service, mounted, myNodeId, nodeId, restOfInit>>

\* lines 540-618: handler i completes and the next one starts, or it fails;
\* "awaitReload" is the promise of rePopulateNginxConfigFile, which resolves
\* or rejects with the pipeline of the request
BootStep(i) ==
    /\ ipc = BootHandlers[i]
    /\ \/ /\ ipc' = AfterBoot(i)
          /\ calls' = Append(calls, Call(BootHandlers[i], 0, {}))
       \/ /\ ipc' = "failed"
          /\ calls' = Append(calls, Call("failed", 0, {}))
    /\ UNCHANGED <<service, mounted, myNodeId, nodeId, restOfInit>>

\* lines 619-623: dockerApi.isServiceRunningByName
IsServiceRunningByName ==
    /\ ipc = "isRunning"
    /\ \/ /\ calls' = Append(calls, Call("isServiceRunningByName", 0, {}))
          /\ ipc' = IF service # 0 THEN "getNodeId" ELSE "create"
          /\ UNCHANGED <<service, mounted, myNodeId, nodeId>>
       \/ InitFails("isServiceRunningByName", 0)
    /\ UNCHANGED restOfInit

\* lines 625-631: dockerApi.getNodeIdByServiceName
GetNodeIdByServiceName ==
    /\ ipc = "getNodeId"
    /\ \/ /\ calls' = Append(calls, Call("getNodeIdByServiceName", service, {}))
          /\ nodeId' = service
          /\ ipc' = "compare"
          /\ UNCHANGED <<service, mounted, myNodeId>>
       \/ InitFails("getNodeIdByServiceName", 0)
    /\ UNCHANGED restOfInit

\* lines 493-538: createNginxServiceOnNode, with its wait of 5 seconds
createNginxServiceOnNode(node) ==
    /\ calls' = Append(calls, Call("createServiceOnNodeId", node, {}))
    /\ service' = node
    /\ mounted' = {}

\* lines 632-635: no service is running, one is created on the leader
CreateOnLeader ==
    /\ ipc = "create"
    /\ \/ /\ createNginxServiceOnNode(myNodeId)
          /\ nodeId' = myNodeId
          /\ ipc' = "compare"
          /\ UNCHANGED myNodeId
       \/ InitFails("createServiceOnNodeId", myNodeId)
    /\ UNCHANGED restOfInit

RemoveAlways ==
    /\ ipc = "compare"
    /\ \/ /\ calls' = Append(calls, Call("removeServiceByName", 0, {}))
          /\ service' = 0
          /\ mounted' = {}
          /\ ipc' = "recreate"
          /\ UNCHANGED <<myNodeId, nodeId>>
       \/ InitFails("removeServiceByName", 0)
    /\ UNCHANGED restOfInit

\* lines 638-645 and 654-656: a service on another node is removed
RemoveIfElsewhere ==
    /\ ipc = "compare"
    /\ IF nodeId # myNodeId
       THEN \/ /\ calls' = Append(calls, Call("removeServiceByName", 0, {}))
               /\ service' = 0
               /\ mounted' = {}
               /\ ipc' = "recreate"
               /\ UNCHANGED <<myNodeId, nodeId>>
            \/ InitFails("removeServiceByName", 0)
       ELSE /\ ipc' = "update"
            /\ UNCHANGED <<service, mounted, myNodeId, nodeId, calls>>
    /\ UNCHANGED restOfInit

RecreateSkipped ==
    /\ ipc = "recreate"
    /\ ipc' = "update"
    /\ UNCHANGED <<service, mounted, myNodeId, nodeId, calls, restOfInit>>

\* lines 646-652: and created again on the leader
Recreate ==
    /\ ipc = "recreate"
    /\ \/ /\ createNginxServiceOnNode(myNodeId)
          /\ ipc' = "update"
          /\ UNCHANGED <<myNodeId, nodeId>>
       \/ InitFails("createServiceOnNodeId", myNodeId)
    /\ UNCHANGED restOfInit

UpdateServiceTwice ==
    /\ ipc = "update"
    /\ calls' = calls \o <<Call("updateService", 0, FullMounts), Call("updateService", 0, FullMounts)>>
    /\ mounted' = FullMounts
    /\ ipc' = "wait"
    /\ UNCHANGED <<service, myNodeId, nodeId, restOfInit>>

\* lines 657-704: dockerApi.updateService with the six mounts
UpdateService ==
    /\ ipc = "update"
    /\ \/ /\ calls' = Append(calls, Call("updateService", 0, FullMounts))
          /\ mounted' = FullMounts
          /\ ipc' = "wait"
          /\ UNCHANGED <<service, myNodeId, nodeId>>
       \/ InitFails("updateService", 0)
    /\ UNCHANGED restOfInit

\* lines 705-718: the wait of 5 seconds, then init resolves
InitResolves ==
    /\ ipc = "wait"
    /\ ipc' = "done"
    /\ calls' = Append(calls, Call("resolved", 0, {}))
    /\ UNCHANGED <<service, mounted, myNodeId, nodeId, restOfInit>>

\* between two calls of init somebody else removes the service or moves it
ExternalChange ==
    /\ ipc = "done"
    /\ calls[Len(calls)].op # "external"
    /\ InitsStarted < MaxInits
    /\ \E n \in 0..MaxNodes :
        /\ n # service
        /\ service' = n
        /\ mounted' = IF n = 0 THEN {} ELSE mounted
        /\ calls' = Append(calls, Call("external", n, {}))
    /\ UNCHANGED <<ipc, myNodeId, nodeId, restOfInit>>

InitLifecycle ==
    /\ InitProcess
    /\ fs = Fresh
    /\ prior = NoPrior
    /\ storeVer = "A"
    /\ crashes = 0
    /\ crashedAt = Idle
    /\ InitBuilderOff
    /\ InitRenderOff
    /\ InitInfoOff
    /\ hupSignals = 0
    /\ service \in 0..MaxNodes
    /\ mounted \in IF service = 0 THEN {{}} ELSE {{}, FullMounts}
    /\ ipc = "idle"
    /\ myNodeId = 0
    /\ nodeId = 0
    /\ calls = <<>>

NextLifecycle ==
    \/ CallInit
    \/ \E i \in DOMAIN BootHandlers : BootStep(i)
    \/ IsServiceRunningByName
    \/ GetNodeIdByServiceName
    \/ CreateOnLeader
    \/ RemoveIfElsewhere
    \/ Recreate
    \/ UpdateService
    \/ InitResolves
    \/ ExternalChange

SpecLifecycle == InitLifecycle /\ [][NextLifecycle]_vars

\* ------------------------------------------------ getInfo (lines 331-376)
\* A string is the sequence of its characters. The body of the status
\* response is built the way nginx writes it, with or without the space
\* that nginx puts before the three counters of line 3 and the space it puts
\* at the end of lines 1, 3 and 4; an empty body is a response without one.
MaxCount == 1
MaxConnections == 3

NL == "\n"
SP == " "
DigitChars == <<"0", "1", "2", "3", "4", "5", "6", "7", "8", "9">>
RECURSIVE Decimal(_)
Decimal(n) == IF n < 10 THEN <<DigitChars[n + 1]>> ELSE Decimal(n \div 10) \o <<DigitChars[(n % 10) + 1]>>

Counts == (0..MaxCount) \cup {10, 15}
Connections == 0..MaxConnections
ActiveLabel == <<"A", "c", "t", "i", "v", "e", " ", "c", "o", "n", "n", "e", "c", "t", "i", "o", "n", "s", ":", " ">>
AcceptsLine == <<"s", "e", "r", "v", "e", "r", " ", "a", "c", "c", "e", "p", "t", "s", " ", "h", "a", "n", "d", "l", "e", "d", " ", "r", "e", "q", "u", "e", "s", "t", "s">>
ReadingLabel == <<"R", "e", "a", "d", "i", "n", "g", ":", " ">>
WritingLabel == <<" ", "W", "r", "i", "t", "i", "n", "g", ":", " ">>
WaitingLabel == <<" ", "W", "a", "i", "t", "i", "n", "g", ":", " ">>
StatusBody(active, a, h, t, r, w, wt, lead, trail) ==
    ActiveLabel \o Decimal(active) \o trail \o <<NL>>
    \o AcceptsLine \o <<NL>>
    \o lead \o Decimal(a) \o <<SP>> \o Decimal(h) \o <<SP>> \o Decimal(t) \o trail \o <<NL>>
    \o ReadingLabel \o Decimal(r) \o WritingLabel \o Decimal(w) \o WaitingLabel \o Decimal(wt) \o trail
Bodies ==
    {StatusBody(active, a, h, t, r, w, wt, lead, trail) :
        active \in Connections, a \in Counts, h \in Counts, t \in Counts,
        r \in Connections, w \in Connections, wt \in Connections,
        lead \in {<<>>, <<SP>>}, trail \in {<<>>, <<SP>>}}

\* String.prototype.split with a separator of one character
RECURSIVE split(_, _)
split(str, sep) ==
    IF \E i \in DOMAIN str : str[i] = sep
    THEN LET i == CHOOSE k \in DOMAIN str : str[k] = sep /\ \A j \in 1..(k - 1) : str[j] # sep
         IN <<SubSeq(str, 1, i - 1)>> \o split(SubSeq(str, i + 1, Len(str)), sep)
    ELSE <<str>>

\* String.prototype.trim
RECURSIVE trim(_)
trim(str) ==
    IF str = <<>> THEN str
    ELSE IF Head(str) \in {SP, NL} THEN trim(Tail(str))
    ELSE IF str[Len(str)] \in {SP, NL} THEN trim(SubSeq(str, 1, Len(str) - 1))
    ELSE str

\* Number(string): 0 for the empty string, NaN for what is not a numeral
NaN == -1
DigitValue(c) == CHOOSE d \in 0..9 : DigitChars[d + 1] = c
RECURSIVE Number(_)
Number(str) ==
    IF str = <<>> THEN 0
    ELSE IF \E i \in DOMAIN str : \A d \in 0..9 : DigitChars[d + 1] # str[i] THEN NaN
    ELSE Number(SubSeq(str, 1, Len(str) - 1)) * 10 + DigitValue(str[Len(str)])

\* Number(lines[l].split(' ')[k].trim()), l and k counted from 0; reading a
\* property of undefined throws
Throws == -2
field(lines, l, k) ==
    IF l >= Len(lines) THEN Throws
    ELSE LET tokens == split(lines[l + 1], SP)
         IN IF k >= Len(tokens) THEN Throws ELSE Number(trim(tokens[k + 1]))

parsed(lines, l0, l2, l3) ==
    LET data == [state |-> "resolved",
                 activeConnections |-> field(lines, 0, l0[1]),
                 accepted |-> field(lines, 2, l2[1]),
                 handled |-> field(lines, 2, l2[2]),
                 total |-> field(lines, 2, l2[3]),
                 reading |-> field(lines, 3, l3[1]),
                 writing |-> field(lines, 3, l3[2]),
                 waiting |-> field(lines, 3, l3[3])]
    IN IF Throws \in {data.activeConnections, data.accepted, data.handled, data.total,
                      data.reading, data.writing, data.waiting}
       THEN [NoInfo EXCEPT !.state = "Parser Failed"]
       ELSE data

parseFromFirstToken(responseBody) ==
    parsed(split(responseBody, NL), <<2>>, <<0, 1, 2>>, <<1, 3, 5>>)

\* lines 346-364: the try block of the callback
parse(responseBody) ==
    parsed(split(responseBody, NL), <<2>>, <<1, 2, 3>>, <<1, 3, 5>>)

\* lines 336-374: the callback of the request
RequestCallback ==
    /\ info.state = "pending"
    /\ \/ info' = [NoInfo EXCEPT !.state = "Request to nginx Failed"]
       \/ body # <<>> /\ info' = parse(body)
    /\ UNCHANGED <<body, restOfInfo>>

InitInfo ==
    /\ InitProcess
    /\ fs = Fresh
    /\ prior = NoPrior
    /\ storeVer = "A"
    /\ crashes = 0
    /\ crashedAt = Idle
    /\ InitBuilderOff
    /\ InitRenderOff
    /\ InitInitOff
    /\ hupSignals = 0
    /\ body \in Bodies \cup {<<>>}
    /\ info = [NoInfo EXCEPT !.state = "pending"]

NextInfo == RequestCallback

SpecInfo == InitInfo /\ [][NextInfo]_vars

\* ================================================================ claims
Settled == {r \in Req : promise[r] \in {"resolved", "rejected"}}
InQueue(r) == \E i \in DOMAIN requestedReloadPromises : requestedReloadPromises[i] = r
\* pipelines started so far: one per request that is running or was settled
Executions == Cardinality({r \in Req : pc[r] # Idle \/ r \in Settled})

\* C1: at most one reload pipeline is executing, and reloadInProcess is true
\* exactly while one is executing.
C1_SingleFlight ==
    /\ Cardinality(Running) <= 1
    /\ reloadInProcess <=> (Running # {})

\* a pipeline is running after an earlier one was settled, and a call was made
\* while a pipeline ran
C1_Witness ==
    /\ reloadInProcess
    /\ \E r \in Running : \E s \in Settled : \E t \in Issued \ (Running \cup Settled) : r # s /\ s # t

\* C2: while a pipeline is running, every request whose call was made during
\* a run and that is not yet settled is kept in the pending collection.
C2_QueuedWhileRunning ==
    \A r \in Req : (promise[r] = "pending" /\ pc[r] = Idle /\ Running # {}) => InQueue(r)

\* C3: every enqueued request is eventually settled (resolved or rejected),
\* given that every pipeline step eventually completes.
C3_EventuallySettled ==
    \A r \in Req : (promise[r] = "pending") ~> (promise[r] \in {"resolved", "rejected"})

\* C4: once the coordinator is idle again, the number of pipeline executions
\* equals the number of rePopulateNginxConfigFile calls (N calls, N executions).
C4_NExecutions ==
    (Running = {} /\ requestedReloadPromises = <<>>) => Executions = Cardinality(Issued)

\* C5: the catch of a failed pipeline rejects only that pipeline's request and
\* releases the busy flag (or hands it to the next drained request), and a call
\* made after a failure, with no pipeline running, starts a new pipeline.
C5_FailureReleases ==
    [][/\ \A r \in Req : (pc[r] = AtCatch /\ pc'[r] # AtCatch) =>
            /\ promise'[r] = "rejected"
            /\ \A s \in Req \ {r} : promise'[s] = promise[s]
            /\ IF requestedReloadPromises = <<>>
               THEN ~reloadInProcess' /\ Running' = {}
               ELSE reloadInProcess' /\ Running' = {Last(requestedReloadPromises)}
       /\ \A r \in Req : (promise[r] = "none" /\ promise'[r] = "pending" /\ Running = {}
                           /\ \E s \in Req : promise[s] = "rejected") =>
            pc'[r] = <<"app", "removeFuture">>
      ]_vars

\* a request was rejected and a later one ran to the end and was resolved
C5_Witness ==
    \E r \in Req : \E s \in Req : r < s /\ promise[r] = "rejected" /\ promise[s] = "resolved"

\* the steps of a swap after its first write began, and the base a failed
\* step belonged to
SwapSteps == {"outputFutureW", "removeBackup", "ensureConfig", "renameConfig", "renameFuture"}
Swapping(r) == InSwap(r) /\ pc[r][2] \in SwapSteps
FailedInSwap(r) == pc[r] = AtCatch /\ error[r].at[1] \in {"app", "root"} /\ error[r].at[2] \in SwapSteps \cup {"outputFuture"}
FailedBase(r) == IF error[r].at[1] = "root" THEN "root" ELSE dataStore[r]

\* C6 (as claimed): during a swap whose target existed before, the .conf file
\* is never absent and holds the complete old or the complete new content.
C6_NeverAbsentOrPartial ==
    \A r \in Req : (Swapping(r) /\ prior[BaseOf(r)].conf # Absent) =>
        fs[CONFIG(BaseOf(r))] \in {prior[BaseOf(r)].conf, NewContent(r)}

\* C6 (amended): no .conf file is ever partially written; during a swap whose
\* target existed before, .conf holds the old content until the rename
\* .conf -> .bak and is absent only between the two renames, when .bak holds
\* the complete old content and .fut the complete new content.
C6_AbsentOnlyBetweenRenames ==
    /\ \A b \in Bases : fs[CONFIG(b)].k # "part"
    /\ \A r \in Req : (Swapping(r) /\ prior[BaseOf(r)].conf # Absent) =>
        /\ fs[CONFIG(BaseOf(r))] \in {prior[BaseOf(r)].conf, NewContent(r), Absent}
        /\ fs[CONFIG(BaseOf(r))] = Absent =>
            /\ pc[r][2] = "renameFuture"
            /\ fs[BACKUP(BaseOf(r))] = prior[BaseOf(r)].conf
            /\ fs[FUTURE(BaseOf(r))] = NewContent(r)

\* the window between the renames of a swap that replaces different content,
\* once for the namespace file and once for the root file
C6_Witness ==
    \E r \in Req :
        /\ pc[r] = <<"root", "renameFuture">>
        /\ prior["root"].conf \notin {Absent, NewContent(r)}
        /\ fs[CONFIG("root")] = Absent
        /\ prior[dataStore[r]].conf \notin {Absent, nginxConfigContent[r]}

\* C7: after a swap completed without error, .conf holds the new content and
\* .bak the content .conf held before the swap (empty when there was none).
C7_SwapResult ==
    \A r \in Req :
        /\ (pc[r][1] = "root" \/ pc[r] = AtSuccess) =>
            /\ fs[CONFIG(dataStore[r])] = nginxConfigContent[r]
            /\ fs[BACKUP(dataStore[r])] = IF prior[dataStore[r]].conf = Absent THEN Empty ELSE prior[dataStore[r]].conf
        /\ pc[r] = AtSuccess =>
            /\ fs[CONFIG("root")] = rootNginxConfContent[r]
            /\ fs[BACKUP("root")] = IF prior["root"].conf = Absent THEN Empty ELSE prior["root"].conf

\* both swaps of a pipeline completed and each replaced existing, different content
C7_Witness ==
    \E r \in Req :
        /\ pc[r] = AtSuccess
        /\ prior["root"].conf \notin {Absent, Empty, rootNginxConfContent[r]}
        /\ prior[dataStore[r]].conf \notin {Absent, Empty, nginxConfigContent[r]}

\* C8: after a kill between the rename .conf -> .bak and the rename
\* .fut -> .conf of a namespace, no later pipeline fails on a missing file, and
\* a later pipeline that gets past the per-namespace swap leaves a .conf with
\* the complete content it generated.
C8_RerunRecovers ==
    crashedAt = <<"app", "renameFuture">> =>
        \A r \in Req :
            /\ pc[r] = AtCatch => error[r].code # "ENOENT"
            /\ (pc[r][1] = "root" \/ pc[r] = AtSuccess) =>
                /\ fs[CONFIG(dataStore[r])] = nginxConfigContent[r]
                /\ fs[CONFIG(dataStore[r])].k = "full"

\* the process was killed in that window and a pipeline of the restarted
\* process ran to the end
C8_Witness ==
    /\ crashedAt = <<"app", "renameFuture">>
    /\ \E r \in Req : promise[r] = "resolved" /\ fs[CONFIG(dataStore[r])].k = "full"

\* C9 (as claimed): when a file-system step of a swap fails, the .bak file that
\* existed before the swap still exists with its prior content.
C9_BackupIntact ==
    \A r \in Req : (FailedInSwap(r) /\ prior[FailedBase(r)].bak # Absent) =>
        fs[BACKUP(FailedBase(r))] = prior[FailedBase(r)].bak

\* C9 (amended): when the write of .fut or the removal of .bak fails, .bak and
\* .conf are as before the swap; when a later step fails, the content .conf
\* held before the swap is still in .conf or in .bak.
C9_PriorContentKept ==
    \A r \in Req : FailedInSwap(r) =>
        /\ error[r].at[2] \in {"outputFuture", "outputFutureW", "removeBackup"} =>
            /\ fs[BACKUP(FailedBase(r))] = prior[FailedBase(r)].bak
            /\ fs[CONFIG(FailedBase(r))] = prior[FailedBase(r)].conf
        /\ (error[r].at[2] \in {"ensureConfig", "renameConfig", "renameFuture"} /\ prior[FailedBase(r)].conf # Absent) =>
            prior[FailedBase(r)].conf \in {fs[CONFIG(FailedBase(r))], fs[BACKUP(FailedBase(r))]}

\* the second rename failed: the earlier .bak is gone and .bak holds the
\* content .conf had before the swap
C9_Witness ==
    \E r \in Req :
        /\ FailedInSwap(r)
        /\ error[r].at[2] = "renameFuture"
        /\ prior[FailedBase(r)].bak # Absent
        /\ prior[FailedBase(r)].conf # Absent
        /\ prior[FailedBase(r)].bak # prior[FailedBase(r)].conf
        /\ fs[BACKUP(FailedBase(r))] = prior[FailedBase(r)].conf

\* the count the claim states: 1 + number of custom domains for every
\* application whose notExposeAsWebApp flag is not set
RECURSIVE ExpectedCount(_, _)
ExpectedCount(appDefs, i) ==
    IF i > Len(appDefs)
    THEN 0
    ELSE (IF appDefs[i].notExposeAsWebApp THEN 0 ELSE 1 + Len(appDefs[i].customDomain.list))
         + ExpectedCount(appDefs, i + 1)

\* C10: getAppsServerConfig returns as many descriptors as the sum, over the
\* applications not flagged notExposeAsWebApp, of 1 + number of custom domains.
C10_DescriptorCount ==
    bpc = "done" => Len(built) = ExpectedCount(apps, 1)

\* a hidden application with custom domains next to an exposed one with
\* custom domains
C10_Witness ==
    /\ bpc = "done"
    /\ \E i \in DOMAIN apps : apps[i].notExposeAsWebApp /\ Len(apps[i].customDomain.list) > 0
    /\ \E i \in DOMAIN apps : ~apps[i].notExposeAsWebApp /\ Len(apps[i].customDomain.list) > 1
    /\ Len(built) = 3

\* ---------------------------------------------------------------- C11
Prepared == bpc \in {"rendering", "rendered", "rejected"}
IsSet(path) == path \notin {"undefined", ""}
IsCustom(s) == s.publicDomain[1] = "custom"

\* C11: a descriptor handed to the renderer, primary or custom, has its
\* certificate path and its key path set (non-empty) exactly when its hasSsl
\* is true, and neither of them otherwise.
C11_CertPathsIffSsl ==
    Prepared =>
        \A i \in DOMAIN built :
            /\ IsSet(built[i].crtPath) <=> built[i].hasSsl
            /\ IsSet(built[i].keyPath) <=> built[i].hasSsl

C11_Witness ==
    /\ bpc = "rendered"
    /\ \E i, j, k \in DOMAIN built :
        /\ IsCustom(built[i]) /\ built[i].hasSsl /\ IsSet(built[i].crtPath)
        /\ IsCustom(built[j]) /\ ~built[j].hasSsl /\ ~IsSet(built[j].crtPath)
        /\ ~IsCustom(built[k]) /\ built[k].hasSsl /\ IsSet(built[k].keyPath)

\* ---------------------------------------------------------------- C12
\* C12: once every chain has completed, the config text is the blocks of the
\* descriptors in the order of the descriptor list, whichever descriptors
\* have a credential and in whichever order the writes of the auth files end.
C12_ListOrder ==
    bpc = "rendered" => text = [i \in DOMAIN built |-> built[i].publicDomain]

\* ---------------------------------------------------------------- C13
InitMarks == {i \in DOMAIN calls : calls[i].op = "init"}
LastInit == CHOOSE i \in InitMarks : \A j \in InitMarks : j <= i
\* the calls of the latest run of init, and those that create, remove or update
RunCalls == SubSeq(calls, LastInit + 1, Len(calls))
SchedulerCalls ==
    {"isServiceRunningByName", "getNodeIdByServiceName", "createServiceOnNodeId",
     "removeServiceByName", "updateService"}
IsClientCall(c) == c.op \in SchedulerCalls
Changes(c) == c.op \in {"createServiceOnNodeId", "removeServiceByName", "updateService"}
Ops(cs) == [i \in DOMAIN cs |-> <<cs[i].op, cs[i].node, cs[i].mounts>>]
\* the placement of the service when the latest run of init was called
PlacedAtCall == calls[LastInit].on

\* C13: when init has succeeded and the proxy service was running on a node
\* other than the leader, the run removed the service, then created it on the
\* leader, then called updateService with the six mounts, in that order, and
\* made no other create or remove call.
C13_MigratesToLeader ==
    (ipc = "done" /\ PlacedAtCall \notin {0, myNodeId}) =>
        Ops(SelectSeq(RunCalls, Changes)) =
            << <<"removeServiceByName", 0, {}>>,
               <<"createServiceOnNodeId", myNodeId, {}>>,
               <<"updateService", 0, FullMounts>> >>

C13_Witness ==
    /\ ipc = "done"
    /\ PlacedAtCall \notin {0, myNodeId}
    /\ service = myNodeId
    /\ \E i \in DOMAIN RunCalls : RunCalls[i].op = "removeServiceByName"

\* ---------------------------------------------------------------- C14
Count(cs, op) == Cardinality({i \in DOMAIN cs : cs[i].op = op})

\* C14: in every run of init that has succeeded, whatever the placement of the
\* service was, updateService was called exactly once and is the last call of
\* the scheduler client, the service was created at most once, and it was
\* removed only when it was running on a node other than the leader.
C14_UpdateOnceAndLast ==
    ipc = "done" =>
        LET cs == SelectSeq(RunCalls, IsClientCall)
        IN /\ Count(cs, "updateService") = 1
           /\ cs[Len(cs)].op = "updateService"
           /\ Count(cs, "createServiceOnNodeId") <= 1
           /\ Count(cs, "removeServiceByName") > 0 => PlacedAtCall \notin {0, myNodeId}

C14_Witness ==
    /\ ipc = "done"
    /\ PlacedAtCall = 0
    /\ Count(RunCalls, "createServiceOnNodeId") = 1
    /\ Count(RunCalls, "removeServiceByName") = 0
    /\ Count(RunCalls, "updateService") = 1

\* ---------------------------------------------------------------- C15
PrevInit == CHOOSE i \in InitMarks \ {LastInit} : \A j \in InitMarks \ {LastInit} : j <= i
\* the latest run follows a successful run for the same leader, nothing
\* having touched the service in between
SecondRunSameLeader ==
    /\ Cardinality(InitMarks) >= 2
    /\ calls[LastInit - 1].op = "resolved"
    /\ calls[PrevInit].node = calls[LastInit].node

\* C15: after a successful init for leader L the service runs on L, and a
\* second successful init for the same L, with no change from outside in
\* between, made no create and no remove call, only the update, and leaves
\* the service on L.
C15_Idempotent ==
    (ipc = "done" /\ calls[Len(calls)].op = "resolved") =>
        /\ service = myNodeId
        /\ SecondRunSameLeader =>
            Ops(SelectSeq(RunCalls, Changes)) = << <<"updateService", 0, FullMounts>> >>

C15_Witness ==
    /\ ipc = "done"
    /\ calls[Len(calls)].op = "resolved"
    /\ SecondRunSameLeader
    /\ calls[PrevInit].on \notin {0, myNodeId}
    /\ service = myNodeId

\* ---------------------------------------------------------------- C16
Answered == info.state \in {"resolved", "Parser Failed"}
Lines == split(body, NL)
NonEmpty(token) == token # <<>>
\* the space-separated integers of line 3
Integers3 == SelectSeq(split(Lines[3], SP), NonEmpty)
Integers4 == SelectSeq(split(Lines[4], SP), NonEmpty)
LeadingSpace == Head(Lines[3]) = SP
TrailingSpace == Lines[3][Len(Lines[3])] = SP
LiteralBody == StatusBody(3, 10, 10, 15, 1, 2, 0, <<>>, <<>>)
NginxBody == StatusBody(3, 10, 10, 15, 1, 2, 0, <<SP>>, <<SP>>)
LiteralInfo ==
    [state |-> "resolved", activeConnections |-> 3, accepted |-> 10, handled |-> 10,
     total |-> 15, reading |-> 1, writing |-> 2, waiting |-> 0]
RestParsed ==
    /\ info.activeConnections = Number(SelectSeq(split(Lines[1], SP), NonEmpty)[3])
    /\ info.reading = Number(Integers4[2])
    /\ info.writing = Number(Integers4[4])
    /\ info.waiting = Number(Integers4[6])

\* C16 as stated: getInfo resolves for every four-line status, the three
\* space-separated integers of line 3 being accepted, handled and total in
\* that order, and the status whose line 3 is "10 10 15" gives
\* activeConnections 3, accepted 10, handled 10, total 15, reading 1,
\* writing 2, waiting 0.
C16_ThreeIntegersInOrder ==
    Answered =>
        /\ info.state = "resolved"
        /\ info.accepted = Number(Integers3[1])
        /\ info.handled = Number(Integers3[2])
        /\ info.total = Number(Integers3[3])
        /\ RestParsed
        /\ body = LiteralBody => info = LiteralInfo

\* C16 amended: line 3 is split at every single space and the tokens 2, 3
\* and 4 are accepted, handled and total. With the space nginx writes before
\* the first counter these are the three integers in order, and the status
\* with line 3 " 10 10 15 " gives the values above; without that space the
\* first integer is skipped: getInfo rejects when nothing follows the third
\* integer, and resolves with accepted the second integer, handled the third
\* and total 0 when a space follows it.
C16_CountersAfterLeadingSpace ==
    Answered =>
        /\ LeadingSpace =>
            /\ info.state = "resolved"
            /\ info.accepted = Number(Integers3[1])
            /\ info.handled = Number(Integers3[2])
            /\ info.total = Number(Integers3[3])
            /\ RestParsed
        /\ body = NginxBody => info = LiteralInfo
        /\ (~LeadingSpace /\ ~TrailingSpace) => info.state = "Parser Failed"
        /\ (~LeadingSpace /\ TrailingSpace) =>
            /\ info.state = "resolved"
            /\ info.accepted = Number(Integers3[2])
            /\ info.handled = Number(Integers3[3])
            /\ info.total = 0
            /\ RestParsed

C16_Witness ==
    /\ body = NginxBody
    /\ info = LiteralInfo

\* ---------------------------------------------------------------- C17
\* C17 as stated: a request is resolved only after the reload (HUP) signal
\* was sent to the proxy.
C17_SignalBeforeResolve ==
    \A r \in Req : promise[r] = "resolved" => hupSignals > 0

\* C17 amended: no step of a reload pipeline sends the signal, so a pipeline
\* swaps both files and resolves its request whether or not a signal was
\* sent; the signal is sent only by a call of sendReloadSignal, which leaves
\* the pipelines, the requests and the files as they are.
C17_SignalOnlyBySeparateCall ==
    [][hupSignals' # hupSignals =>
          /\ pc' = pc
          /\ promise' = promise
          /\ requestedReloadPromises' = requestedReloadPromises
          /\ fs' = fs]_vars

C17_Witness ==
    /\ hupSignals = 0
    /\ \E r \in Req : promise[r] = "resolved"
    /\ \A base \in Bases : fs[CONFIG(base)].k = "full"

\* ---------------------------------------------------------------- C18
\* a request leaves the pending collection in this step: it was in it, or it
\* is the request of the call, pushed and popped within the call
Taken(r) ==
    /\ InQueue(r) \/ (promise[r] = "none" /\ promise'[r] = "pending")
    /\ ~(\E i \in DOMAIN requestedReloadPromises' : requestedReloadPromises'[i] = r)

\* C18: a drain attempt takes one request from the pending collection, the
\* most recently enqueued one, and the pipeline is run for the request taken.
C18_TakenRequestRuns ==
    [][\A r \in Req : Taken(r) =>
          /\ pc'[r] = <<"app", "removeFuture">>
          /\ requestedReloadPromises # <<>> =>
                (r = Last(requestedReloadPromises) \/ ~InQueue(r))]_vars

\* ---------------------------------------------------------------- C19
StepOrder ==
    << <<"app", "removeFuture">>, <<"app", "getServerList">>, <<"app", "render">>,
       <<"app", "outputFuture">>, <<"app", "outputFutureW">>, <<"app", "removeBackup">>,
       <<"app", "ensureConfig">>, <<"app", "renameConfig">>, <<"app", "renameFuture">>,
       <<"root", "render">>,
       <<"root", "outputFuture">>, <<"root", "outputFutureW">>, <<"root", "removeBackup">>,
       <<"root", "ensureConfig">>, <<"root", "renameConfig">>, <<"root", "renameFuture">>,
       AtSuccess >>

\* C19: a pipeline takes its steps in one order: remove the stale .fut,
\* build the descriptor list, render, swap the namespace file, swap the root
\* file, resolve; a step that fails leads to the catch. The swap of the root
\* file begins only with the rename .fut -> .conf of the namespace done, and
\* the request is resolved only at the end of the chain, after both swaps.
C19_StepOrder ==
    [][\A r \in Req :
          /\ pc'[r] # pc[r] =>
                \/ pc[r] = Idle /\ pc'[r] = StepOrder[1]
                \/ \E i \in 1..(Len(StepOrder) - 1) : pc[r] = StepOrder[i] /\ pc'[r] = StepOrder[i + 1]
                \/ pc[r] \notin {Idle, AtSuccess, AtCatch} /\ pc'[r] = AtCatch
                \/ pc[r] \in {AtSuccess, AtCatch} /\ pc'[r] = Idle
          /\ (pc'[r][1] = "root" /\ pc[r][1] # "root") =>
                /\ pc[r] = <<"app", "renameFuture">>
                /\ fs'[CONFIG(dataStore[r])] = nginxConfigContent[r]
                /\ fs'[FUTURE(dataStore[r])] = Absent
          /\ (pc'[r] = AtSuccess /\ pc[r] # AtSuccess) =>
                /\ pc[r] = <<"root", "renameFuture">>
                /\ fs'[CONFIG("root")] = rootNginxConfContent[r]
          /\ (promise'[r] = "resolved" /\ promise[r] # "resolved") => pc[r] = AtSuccess]_vars

C19_Witness ==
    \E r \in Req :
        /\ pc[r] = AtSuccess
        /\ promise[r] = "pending"
        /\ fs[CONFIG(dataStore[r])] = nginxConfigContent[r]
        /\ fs[CONFIG("root")] = rootNginxConfContent[r]

\* ---------------------------------------------------------------- C20
\* C20 as stated: a custom-domain descriptor handed to the renderer has an
\* empty static web root and an empty error-pages directory.
C20_CustomDomainsEmpty ==
    Prepared =>
        \A i \in DOMAIN built :
            IsCustom(built[i]) =>
                built[i].staticWebRoot = "" /\ built[i].customErrorPagesDirectory = ""

\* C20 amended: getAppsServerConfig returns the custom-domain descriptors with
\* both directories empty, and the loop that precedes the rendering sets both
\* on every descriptor, primary or custom.
C20_EveryDescriptorGetsDirs ==
    /\ bpc = "done" =>
        \A i \in DOMAIN built :
            IsCustom(built[i]) =>
                built[i].staticWebRoot = "" /\ built[i].customErrorPagesDirectory = ""
    /\ Prepared =>
        \A i \in DOMAIN built :
            /\ built[i].staticWebRoot = DomainSpecificHtmlDir
            /\ built[i].customErrorPagesDirectory = DefaultHtmlDir

C20_Witness ==
    /\ bpc = "rendered"
    /\ \E i, j \in DOMAIN built :
        /\ IsCustom(built[i]) /\ built[i].staticWebRoot = DomainSpecificHtmlDir
        /\ ~IsCustom(built[j]) /\ built[j].staticWebRoot = DomainSpecificHtmlDir

\* ---------------------------------------------------------------- C21
AppOf(s) == apps[s.publicDomain[2]]
BothSet(auth) == auth.defined /\ auth.user # "undefined" /\ auth.passwordHashed # "undefined"

\* C21: the credential of every descriptor is "user:hashedPassword" when the
\* user and the hashed password of its application are both set and is empty
\* in every other case; the descriptors of one application carry the same
\* credential.
C21_CredentialWhenBothSet ==
    bpc = "done" =>
        /\ \A i \in DOMAIN built :
              built[i].httpBasicAuth = IF BothSet(AppOf(built[i]).httpAuth) THEN "user:hash" ELSE ""
        /\ \A i, j \in DOMAIN built :
              built[i].publicDomain[2] = built[j].publicDomain[2] =>
                  built[i].httpBasicAuth = built[j].httpBasicAuth

\* ---------------------------------------------------------------- C22
BeforeSwap == {<<"app", "removeFuture">>, <<"app", "getServerList">>, <<"app", "render">>}
RenderFailed(r) == pc[r] = AtCatch /\ error[r].code = "ERENDER" /\ error[r].at = <<"app", "render">>

\* C22: while a pipeline is at a step up to and including the rendering of
\* the descriptors, and once that rendering has failed, no .conf and no .bak
\* file changes, no .fut file is written and nothing is renamed; the failure
\* leads to the catch, whose step rejects the request.
C22_RenderFailureChangesNothing ==
    [][\A r \in Req :
          /\ (pc[r] \in BeforeSwap \/ RenderFailed(r)) =>
                \A b \in Bases :
                    /\ fs'[CONFIG(b)] = fs[CONFIG(b)]
                    /\ fs'[BACKUP(b)] = fs[BACKUP(b)]
                    /\ fs'[FUTURE(b)] \in {fs[FUTURE(b)], Absent}
          /\ (pc[r] = <<"app", "render">> /\ pc'[r] # pc[r]) =>
                pc'[r] \in {<<"app", "outputFuture">>, AtCatch}
          /\ (RenderFailed(r) /\ pc'[r] # pc[r]) => promise'[r] = "rejected"]_vars

C22_Witness ==
    \E r \in Req :
        /\ RenderFailed(r)
        /\ promise[r] = "pending"
        /\ \A b \in Bases : fs[CONFIG(b)].k = "full" /\ fs[FUTURE(b)] = Absent

\* ---------------------------------------------------------------- C24
Finishing(r) == pc[r] \in {AtSuccess, AtCatch} /\ pc'[r] = Idle

\* C24: between two steps requestedReloadPromises is empty, every call of
\* rePopulateNginxConfigFile having popped the request it pushed, whether a
\* pipeline is running or not; and the drain made when a pipeline finishes
\* starts no pipeline and leaves the coordinator idle.
C24_PendingAlwaysEmpty ==
    /\ [](requestedReloadPromises = <<>>)
    /\ [][\A r \in Req : Finishing(r) =>
              /\ ~reloadInProcess'
              /\ \A q \in Req : pc'[q] = Idle]_vars

C24_Witness ==
    \E r, q \in Req :
        /\ pc[r] = AtSuccess
        /\ promise[q] = "pending"
        /\ pc[q] = Idle
        /\ requestedReloadPromises = <<>>

\* ---------------------------------------------------------------- C25
Promoted(r) == pc[r][2] = "renameFuture" /\ pc'[r] \in {<<"root", "render">>, AtSuccess}

\* C25: the rename .fut -> .conf of a pipeline puts in .conf the content that
\* pipeline wrote to .fut, whatever .fut an earlier failed or killed run
\* left behind, and leaves no .fut file; when a pipeline has succeeded no
\* .fut file remains, of the namespace or of the root.
C25_OwnFuturePromoted ==
    /\ [](\A r \in Req : pc[r] = AtSuccess => \A b \in Bases : fs[FUTURE(b)] = Absent)
    /\ [][\A r \in Req : (InSwap(r) /\ Promoted(r)) =>
              /\ fs'[CONFIG(BaseOf(r))] = NewContent(r)
              /\ NewContent(r).k = "full"
              /\ fs'[FUTURE(BaseOf(r))] = Absent]_vars

C25_Witness ==
    /\ crashedAt # Idle
    /\ \E r \in Req :
        /\ pc[r] = AtSuccess
        /\ \A b \in Bases : fs[CONFIG(b)] = Full("B") /\ fs[FUTURE(b)] = Absent

\* ---------------------------------------------------------------- C23
BeforeScheduler ==
    {"outputFile:captainConfirmationPath", "outputFile:index.html",
     "outputFile:error_generic_catch_all.html", "outputFile:captain_502_custom_error_page.html",
     "copy:fakeCerts", "ensureBaseNginxConf", "awaitReload"}
InBoot == \E i \in DOMAIN BootHandlers : ipc = BootHandlers[i]

\* C23: in a run of init every call of the scheduler client comes after the
\* confirmation token and the static pages were written, the fake
\* certificates copied, the base config written and the reload request of
\* init resolved, all in that run; a run that has not got that far, or that
\* failed on the way, has made no call of the scheduler client, and a run
\* in which one of them failed is rejected.
C23_BootstrapBeforeScheduler ==
    /\ [](calls # <<>> =>
            /\ \A i \in DOMAIN RunCalls :
                  IsClientCall(RunCalls[i]) =>
                      \A h \in BeforeScheduler : \E j \in 1..(i - 1) : RunCalls[j].op = h
            /\ InBoot => \A i \in DOMAIN RunCalls : ~IsClientCall(RunCalls[i]))
    /\ [][(InBoot /\ ipc' # ipc) =>
            \/ \E i \in DOMAIN BootHandlers :
                  /\ ipc = BootHandlers[i]
                  /\ ipc' = AfterBoot(i)
                  /\ calls' = Append(calls, Call(BootHandlers[i], 0, {}))
            \/ /\ ipc' = "failed"
               /\ \A i \in DOMAIN calls' : i > LastInit => ~IsClientCall(calls'[i])]_vars

C23_Witness ==
    /\ ipc = "done"
    /\ Cardinality(InitMarks) >= 2
    /\ \E i \in DOMAIN RunCalls : RunCalls[i].op = "awaitReload"
    /\ \E i \in DOMAIN RunCalls : RunCalls[i].op = "updateService"
    /\ \A i \in DOMAIN RunCalls :
          RunCalls[i].op = "isServiceRunningByName" => RunCalls[i - 1].op = "ensureDir:nginxSharedPathOnHost"

====
